---- MODULE Spec2Model ----
(***************************************************************************)
(* Model of the day planner of task-scheduler                              *)
(* (src/src/components/TaskScheduler.tsx): the packing of today's tasks    *)
(* into a schedule (generateSchedule), the re-pack after a drag-and-drop   *)
(* reorder (handleScheduleDrop) and the session that walks the schedule.   *)
(*                                                                         *)
(* Times of day are minutes since local midnight of the schedule's day: a  *)
(* Date built by setHours(h, m, 0, 0) and moved by setMinutes is a whole   *)
(* number of minutes.  A "HH:MM" string is the pair <<h, m>> of its two    *)
(* zero-padded fields.  A nullable value is Null or Some(v).  Indices are  *)
(* 0-based as in the source; the k-th element of a list s is s[k + 1].     *)
(***************************************************************************)
EXTENDS Integers, Sequences, FiniteSets, TLC

VARIABLES todaysTasks, startTime, schedule, currentTaskIndex, timeRemaining,
          isRunning, draggedScheduleItem, timerRef, endTimeRef, intervals,
          alertsPlayed, now, lastOp,
          workspace, isLoading, allTasks, store, requests

vars == <<todaysTasks, startTime, schedule, currentTaskIndex, timeRemaining,
          isRunning, draggedScheduleItem, timerRef, endTimeRef, intervals,
          alertsPlayed, now, lastOp,
          workspace, isLoading, allTasks, store, requests>>

\* the selected workspace, the loading flag, the list of all its tasks, the
\* remote task store and the requests sent to it
storeVars == <<workspace, isLoading, allTasks, store, requests>>

\* the session: the React state and the two refs the countdown lives in,
\* with the number of interval callbacks currently armed and the number of
\* alerts played by the last operation on the session
sessionVars == <<currentTaskIndex, timeRemaining, isRunning, timerRef, endTimeRef,
                 intervals, alertsPlayed>>

(***************************************************************************)
(* Nullable values.                                                        *)
(***************************************************************************)
Null == <<>>

Some(v) == <<v>>

Val(o) == o[1]

(***************************************************************************)
(* Bounds of the explored inputs.                                          *)
(***************************************************************************)
MaxTasks == 3

(***************************************************************************)
(* Program constants of the packing.                                       *)
(***************************************************************************)
BufferMinutes == 5

MinGapMinutes == 10

(***************************************************************************)
(* "HH:MM" strings.                                                        *)
(***************************************************************************)
\* parseInt(hours) * 60 + parseInt(minutes), also setHours(h, m, 0, 0)
ParseTime(t) == t[1] * 60 + t[2]

\* collation key of a zero-padded "HH:MM" string: a.localeCompare(b) < 0
\* exactly when TimeStrKey(a) < TimeStrKey(b)
TimeStrKey(t) == t[1] * 100 + t[2]

\* category strings of the source, with their rank under localeCompare
CategoryRank ==
  [c \in {"Admin", "External Meeting", "Internal Meeting", "Meeting Follow-Up",
          "Open Opp Tasks", "Personal", "Prospecting"} |->
     CASE c = "Admin" -> 1
       [] c = "External Meeting" -> 2
       [] c = "Internal Meeting" -> 3
       [] c = "Meeting Follow-Up" -> 4
       [] c = "Open Opp Tasks" -> 5
       [] c = "Personal" -> 6
       [] c = "Prospecting" -> 7]

(***************************************************************************)
(* Array helpers.                                                          *)
(***************************************************************************)
\* insertion of the keyed element x into the sorted list s, after every
\* element whose key is not greater: Array.prototype.sort is stable
RECURSIVE InsertSorted(_, _)
InsertSorted(s, x) ==
  IF s = <<>> THEN <<x>>
  ELSE IF x.key < s[1].key THEN <<x>> \o s
       ELSE <<s[1]>> \o InsertSorted(Tail(s), x)

RECURSIVE SortKeyed(_)
SortKeyed(s) ==
  IF s = <<>> THEN <<>>
  ELSE InsertSorted(SortKeyed(SubSeq(s, 1, Len(s) - 1)), s[Len(s)])

\* s.sort(comparator), keys[i] being the number the comparator orders s[i]
\* by: Key(a) - Key(b), or localeCompare of strings of collation key Key
SortBy(s, keys) ==
  LET keyed  == [i \in 1..Len(s) |-> [key |-> keys[i], val |-> s[i]]]
      sorted == SortKeyed(keyed)
  IN  [i \in 1..Len(s) |-> sorted[i].val]

\* splice(i, 1) on a copy
RemoveAt(s, i) == SubSeq(s, 1, i) \o SubSeq(s, i + 2, Len(s))

\* splice(i, 0, x) on a copy; an index beyond the end appends
InsertAt(s, i, x) ==
  LET k == IF i > Len(s) THEN Len(s) ELSE i
  IN  SubSeq(s, 1, k) \o <<x>> \o SubSeq(s, k + 1, Len(s))

(***************************************************************************)
(* generateSchedule: the merge-walk over the anchors (fixedTime set) and   *)
(* the flexible tasks.  The walk's locals are the record                   *)
(* [flexIndex, fixedIndex, currentTime, items].                            *)
(***************************************************************************)
\* task => task.fixedTime (a non-empty string is truthy)
HasFixedTime(task) == task.fixedTime # Null

\* mutant: the filter of the flexible tasks lets every task through
IsFlexibleTask_Always(task) == TRUE

IsFlexibleTask(task) == ~HasFixedTime(task)

FixedTimeKey(task) == TimeStrKey(task.fixedTime)

\* mutant: the categories are compared the other way round
CategoryKey_Descending(task) == 0 - CategoryRank[task.category]

CategoryKey(task) == CategoryRank[task.category]

\* the block pushed for a flexible task
FlexItem(task, start, end) ==
  [task |-> task.name, category |-> task.category, start |-> start,
   end |-> end, duration |-> task.duration, completed |-> FALSE,
   isFixed |-> FALSE, originalFixedTime |-> Null, notes |-> task.notes]

\* mutant: the anchor's end is its start, the duration is not added
FixedItem_NoDuration(task, start, end) ==
  [task |-> task.name, category |-> task.category, start |-> start,
   end |-> start, duration |-> task.duration, completed |-> FALSE,
   isFixed |-> TRUE, originalFixedTime |-> task.fixedTime, notes |-> task.notes]

\* the block pushed for an anchor
FixedItem(task, start, end) ==
  [task |-> task.name, category |-> task.category, start |-> start,
   end |-> end, duration |-> task.duration, completed |-> FALSE,
   isFixed |-> TRUE, originalFixedTime |-> task.fixedTime, notes |-> task.notes]

\* the inner loop that fills the slot before the anchor at fixedDateTime
RECURSIVE GenFillBefore(_, _, _)
GenFillBefore(flexibleTasks, w, fixedDateTime) ==
  IF ~(w.flexIndex < Len(flexibleTasks)) THEN w
  ELSE
    LET flexTask    == flexibleTasks[w.flexIndex + 1]
        taskEndTime == w.currentTime + flexTask.duration + BufferMinutes
    IN  IF taskEndTime > fixedDateTime THEN w
        ELSE
          LET startDateTime == w.currentTime
              endDateTime   == w.currentTime + flexTask.duration
              flexIndex     == w.flexIndex + 1
              nextTaskTime  == endDateTime + BufferMinutes
          IN  GenFillBefore(flexibleTasks,
                [w EXCEPT !.items = Append(@, FlexItem(flexTask, startDateTime, endDateTime)),
                          !.flexIndex = flexIndex,
                          !.currentTime =
                             IF nextTaskTime < fixedDateTime /\ flexIndex < Len(flexibleTasks)
                             THEN nextTaskTime ELSE endDateTime],
                fixedDateTime)

\* mutant: no buffer between the flexible tasks placed after the last anchor
RECURSIVE GenPlaceRest_NoBuffer(_, _)
GenPlaceRest_NoBuffer(flexibleTasks, w) ==
  IF ~(w.flexIndex < Len(flexibleTasks)) THEN w
  ELSE
    LET flexTask    == flexibleTasks[w.flexIndex + 1]
        endDateTime == w.currentTime + flexTask.duration
    IN  GenPlaceRest_NoBuffer(flexibleTasks,
          [w EXCEPT !.items = Append(@, FlexItem(flexTask, w.currentTime, endDateTime)),
                    !.flexIndex = @ + 1,
                    !.currentTime = endDateTime])

\* mutant: 10 minutes between the flexible tasks placed after the last anchor
RECURSIVE GenPlaceRest_TenMinutes(_, _)
GenPlaceRest_TenMinutes(flexibleTasks, w) ==
  IF ~(w.flexIndex < Len(flexibleTasks)) THEN w
  ELSE
    LET flexTask    == flexibleTasks[w.flexIndex + 1]
        endDateTime == w.currentTime + flexTask.duration
    IN  GenPlaceRest_TenMinutes(flexibleTasks,
          [w EXCEPT !.items = Append(@, FlexItem(flexTask, w.currentTime, endDateTime)),
                    !.flexIndex = @ + 1,
                    !.currentTime = endDateTime + MinGapMinutes])

\* the loop that places the remaining flexible tasks once no anchor is left
RECURSIVE GenPlaceRest(_, _)
GenPlaceRest(flexibleTasks, w) ==
  IF ~(w.flexIndex < Len(flexibleTasks)) THEN w
  ELSE
    LET flexTask      == flexibleTasks[w.flexIndex + 1]
        startDateTime == w.currentTime
        endDateTime   == w.currentTime + flexTask.duration
        flexIndex     == w.flexIndex + 1
    IN  GenPlaceRest(flexibleTasks,
          [w EXCEPT !.items = Append(@, FlexItem(flexTask, startDateTime, endDateTime)),
                    !.flexIndex = flexIndex,
                    !.currentTime =
                       IF flexIndex < Len(flexibleTasks)
                       THEN endDateTime + BufferMinutes ELSE endDateTime])

\* the slot before an anchor is filled only when it is at least 10 minutes
GenSlotOpen(availableMinutes, w, flexibleTasks) ==
  availableMinutes >= MinGapMinutes /\ w.flexIndex < Len(flexibleTasks)

\* mutant: the cursor is left where it was when the anchor is placed
GenAfterFixed_CursorKept(w, endDateTime) == w.currentTime

\* mutant: the walk continues at the anchor's end, without the buffer
GenAfterFixed_NoBuffer(w, endDateTime) == endDateTime

\* mutant: the walk continues 10 minutes after the anchor's end
GenAfterFixed_TenMinutes(w, endDateTime) == endDateTime + MinGapMinutes

\* where the walk continues after an anchor that ends at endDateTime
GenAfterFixed(w, endDateTime) == endDateTime + BufferMinutes

\* while (flexIndex < flexibleTasks.length || fixedIndex < fixedTasks.length)
GenContinues(fixedTasks, flexibleTasks, w) ==
  w.flexIndex < Len(flexibleTasks) \/ w.fixedIndex < Len(fixedTasks)

\* mutant: the anchor is counted but no block is pushed for it
GenIteration_DropsAnchor(fixedTasks, flexibleTasks, w) ==
  IF w.fixedIndex < Len(fixedTasks)
  THEN [w EXCEPT !.fixedIndex = @ + 1]
  ELSE GenPlaceRest(flexibleTasks, w)

\* one pass through the body of the outer while loop
GenIteration(fixedTasks, flexibleTasks, w) ==
  IF w.fixedIndex < Len(fixedTasks) THEN
    LET fixedTask        == fixedTasks[w.fixedIndex + 1]
        fixedDateTime    == ParseTime(fixedTask.fixedTime)
        availableMinutes == fixedDateTime - w.currentTime
        f                == IF GenSlotOpen(availableMinutes, w, flexibleTasks)
                            THEN GenFillBefore(flexibleTasks, w, fixedDateTime)
                            ELSE w
        endDateTime      == fixedDateTime + fixedTask.duration
    IN  [f EXCEPT !.items = Append(@, FixedItem(fixedTask, fixedDateTime, endDateTime)),
                  !.currentTime = GenAfterFixed(f, endDateTime),
                  !.fixedIndex = @ + 1]
  ELSE GenPlaceRest(flexibleTasks, w)

\* the outer while loop
RECURSIVE GenWalk(_, _, _)
GenWalk(fixedTasks, flexibleTasks, w) ==
  IF ~GenContinues(fixedTasks, flexibleTasks, w) THEN w
  ELSE GenWalk(fixedTasks, flexibleTasks, GenIteration(fixedTasks, flexibleTasks, w))

ItemStart(item) == item.start

\* scheduleItems.sort((a, b) => a.start.getTime() - b.start.getTime())
SortByStart(items) == SortBy(items, [i \in 1..Len(items) |-> ItemStart(items[i])])

\* the schedule generateSchedule builds from the tasks and the start time
Generate(tasks, start) ==
  LET fixed         == SelectSeq(tasks, HasFixedTime)
      flexible      == SelectSeq(tasks, IsFlexibleTask)
      fixedTasks    == SortBy(fixed, [i \in 1..Len(fixed) |-> FixedTimeKey(fixed[i])])
      flexibleTasks == SortBy(flexible, [i \in 1..Len(flexible) |-> CategoryKey(flexible[i])])
      w0 == [flexIndex |-> 0, fixedIndex |-> 0,
             currentTime |-> ParseTime(start), items |-> <<>>]
  IN  SortByStart(GenWalk(fixedTasks, flexibleTasks, w0).items)

(***************************************************************************)
(* handleScheduleDrop: the re-pack of an already generated schedule after  *)
(* a block was dragged onto another.                                       *)
(***************************************************************************)
ItemIsFixed(item) == item.isFixed

ItemIsFlexible(item) == ~item.isFixed

\* mutant: the minutes of originalFixedTime are not added to the hours
OriginalFixedMinutes_HoursOnly(item) ==
  (IF item.originalFixedTime = Null THEN <<0, 0>> ELSE item.originalFixedTime)[1] * 60

\* (item.originalFixedTime || '00:00') parsed to minutes
OriginalFixedMinutes(item) ==
  ParseTime(IF item.originalFixedTime = Null THEN <<0, 0>> ELSE item.originalFixedTime)

\* mutant: the re-pack builds the block anew, not completed
Replaced_NotCompleted(item, start, end) ==
  [item EXCEPT !.start = start, !.end = end, !.completed = FALSE]

\* { ...item, start, end }
Replaced(item, start, end) == [item EXCEPT !.start = start, !.end = end]

\* the inner loop that fills the slot before the fixed block at fixedStartTime
RECURSIVE DropFillBefore(_, _, _)
DropFillBefore(flexibleTasks, w, fixedStartTime) ==
  IF ~(w.flexIndex < Len(flexibleTasks)) THEN w
  ELSE
    LET flexTask    == flexibleTasks[w.flexIndex + 1]
        taskEndTime == w.currentTime + flexTask.duration + BufferMinutes
    IN  IF taskEndTime > fixedStartTime THEN w
        ELSE
          LET startDateTime == w.currentTime
              endDateTime   == w.currentTime + flexTask.duration
          IN  DropFillBefore(flexibleTasks,
                [w EXCEPT !.items = Append(@, Replaced(flexTask, startDateTime, endDateTime)),
                          !.flexIndex = @ + 1,
                          !.currentTime = endDateTime + BufferMinutes],
                fixedStartTime)

\* the loop that places the remaining flexible blocks once no fixed block is left
RECURSIVE DropPlaceRest(_, _)
DropPlaceRest(flexibleTasks, w) ==
  IF ~(w.flexIndex < Len(flexibleTasks)) THEN w
  ELSE
    LET flexTask      == flexibleTasks[w.flexIndex + 1]
        startDateTime == w.currentTime
        endDateTime   == w.currentTime + flexTask.duration
        flexIndex     == w.flexIndex + 1
    IN  DropPlaceRest(flexibleTasks,
          [w EXCEPT !.items = Append(@, Replaced(flexTask, startDateTime, endDateTime)),
                    !.flexIndex = flexIndex,
                    !.currentTime =
                       IF flexIndex < Len(flexibleTasks)
                       THEN endDateTime + BufferMinutes ELSE endDateTime])

\* while (flexIndex < flexibleTasks.length || fixedIndex < fixedTasks.length)
DropContinues(fixedTasks, flexibleTasks, w) ==
  w.flexIndex < Len(flexibleTasks) \/ w.fixedIndex < Len(fixedTasks)

\* mutant: after a fixed block the cursor is put at the block's start
DropIteration_CursorAtFixedStart(fixedTasks, flexibleTasks, w) ==
  IF w.fixedIndex < Len(fixedTasks) THEN
    LET fixedTask      == fixedTasks[w.fixedIndex + 1]
        fixedStartTime == OriginalFixedMinutes(fixedTask)
        f              == DropFillBefore(flexibleTasks, w, fixedStartTime)
        fixedEnd       == fixedStartTime + fixedTask.duration
    IN  [f EXCEPT !.items = Append(@, Replaced(fixedTask, fixedStartTime, fixedEnd)),
                  !.currentTime = fixedStartTime,
                  !.fixedIndex = @ + 1]
  ELSE DropPlaceRest(flexibleTasks, w)

\* one pass through the body of the outer while loop
DropIteration(fixedTasks, flexibleTasks, w) ==
  IF w.fixedIndex < Len(fixedTasks) THEN
    LET fixedTask      == fixedTasks[w.fixedIndex + 1]
        fixedStartTime == OriginalFixedMinutes(fixedTask)
        f              == DropFillBefore(flexibleTasks, w, fixedStartTime)
        fixedEnd       == fixedStartTime + fixedTask.duration
    IN  [f EXCEPT !.items = Append(@, Replaced(fixedTask, fixedStartTime, fixedEnd)),
                  !.currentTime = fixedEnd + BufferMinutes,
                  !.fixedIndex = @ + 1]
  ELSE DropPlaceRest(flexibleTasks, w)

\* the outer while loop
RECURSIVE DropWalk(_, _, _)
DropWalk(fixedTasks, flexibleTasks, w) ==
  IF ~DropContinues(fixedTasks, flexibleTasks, w) THEN w
  ELSE DropWalk(fixedTasks, flexibleTasks, DropIteration(fixedTasks, flexibleTasks, w))

\* mutant: the block is inserted at the target index itself
MoveItem_AtTarget(items, dragged, targetIndex) ==
  InsertAt(RemoveAt(items, dragged), targetIndex, items[dragged + 1])

\* the two splices that move the dragged block: out of its position, then
\* in front of the target (one position lower when the target was behind it)
MoveItem(items, dragged, targetIndex) ==
  InsertAt(RemoveAt(items, dragged),
           IF targetIndex > dragged THEN targetIndex - 1 ELSE targetIndex,
           items[dragged + 1])

\* the schedule the re-pack builds from the reordered blocks
Repack(newSchedule, start) ==
  LET fixed         == SelectSeq(newSchedule, ItemIsFixed)
      fixedTasks    == SortBy(fixed, [i \in 1..Len(fixed) |-> OriginalFixedMinutes(fixed[i])])
      flexibleTasks == SelectSeq(newSchedule, ItemIsFlexible)
      w0 == [flexIndex |-> 0, fixedIndex |-> 0,
             currentTime |-> ParseTime(start), items |-> <<>>]
  IN  SortByStart(DropWalk(fixedTasks, flexibleTasks, w0).items)

\* mutant: a drop of a block onto itself is not turned down
DropIgnored_NoSelfCheck(targetIndex) ==
  draggedScheduleItem = Null \/ schedule = Null

\* the drop is turned down before any block is looked at
DropIgnored(targetIndex) ==
  draggedScheduleItem = Null \/ Val(draggedScheduleItem) = targetIndex \/ schedule = Null

\* the dragged index is stale and designates no block: reading isFixed throws
DropThrows(targetIndex) ==
  ~DropIgnored(targetIndex) /\ ~(Val(draggedScheduleItem) < Len(Val(schedule)))

\* the dragged block is fixed
DropOfFixed(targetIndex) ==
  /\ ~DropIgnored(targetIndex) /\ ~DropThrows(targetIndex)
  /\ Val(schedule)[Val(draggedScheduleItem) + 1].isFixed

DropAccepted(targetIndex) ==
  ~DropIgnored(targetIndex) /\ ~DropThrows(targetIndex) /\ ~DropOfFixed(targetIndex)

(***************************************************************************)
(* The session.  A handler works on the record of the session fields and   *)
(* the render that follows it runs the timer effect.  Date.now() is the    *)
(* variable now, in milliseconds.                                          *)
(***************************************************************************)
Session ==
  [currentTaskIndex |-> currentTaskIndex, timeRemaining |-> timeRemaining,
   isRunning |-> isRunning, timerRef |-> timerRef, endTimeRef |-> endTimeRef,
   intervals |-> intervals, alertsPlayed |-> 0]

SetSession(s) ==
  /\ currentTaskIndex' = s.currentTaskIndex
  /\ timeRemaining' = s.timeRemaining
  /\ isRunning' = s.isRunning
  /\ timerRef' = s.timerRef
  /\ endTimeRef' = s.endTimeRef
  /\ intervals' = s.intervals
  /\ alertsPlayed' = s.alertsPlayed

Max(a, b) == IF a > b THEN a ELSE b

\* Math.ceil(ms / 1000)
CeilSeconds(ms) == 0 - ((0 - ms) \div 1000)

\* mutant: the ref is reset but the interval it held is not cleared
ClearTimer_NoClearInterval(s) == [s EXCEPT !.timerRef = Null]

\* if (timerRef.current) { clearInterval(timerRef.current); timerRef.current = null }
ClearTimer(s) ==
  IF s.timerRef # Null
  THEN [s EXCEPT !.timerRef = Null, !.intervals = @ - 1]
  ELSE s

\* timerRef.current = setInterval(updateTimer, 100)
ArmTimer(s) == [s EXCEPT !.timerRef = Some("interval"), !.intervals = @ + 1]

\* playAlert(): three beeps
PlayAlert(s) == [s EXCEPT !.alertsPlayed = @ + 1]

\* mutant: the countdown is decremented by one per callback instead of
\* being recomputed from the deadline
UpdateTimer_Decrement(s) ==
  IF s.endTimeRef = Null THEN s
  ELSE
    LET remaining == Max(0, (IF s.timeRemaining = Null THEN 0 ELSE Val(s.timeRemaining)) - 1)
        t == [s EXCEPT !.timeRemaining = Some(remaining)]
    IN  IF remaining <= 0
        THEN ClearTimer([PlayAlert(t) EXCEPT !.isRunning = FALSE, !.endTimeRef = Null])
        ELSE t

\* mutant: at 0 the alert is played and the countdown stopped, but the
\* deadline and the interval are left in place
UpdateTimer_AlertOnly(s) ==
  IF s.endTimeRef = Null THEN s
  ELSE
    LET remaining == Max(0, CeilSeconds(Val(s.endTimeRef) - now))
        t == [s EXCEPT !.timeRemaining = Some(remaining)]
    IN  IF remaining <= 0
        THEN [PlayAlert(t) EXCEPT !.isRunning = FALSE]
        ELSE t

UpdateTimer(s) ==
  IF s.endTimeRef = Null THEN s
  ELSE
    LET remaining == Max(0, CeilSeconds(Val(s.endTimeRef) - now))
        t == [s EXCEPT !.timeRemaining = Some(remaining)]
    IN  IF remaining <= 0
        THEN ClearTimer([PlayAlert(t) EXCEPT !.isRunning = FALSE, !.endTimeRef = Null])
        ELSE t

\* the effect on [isRunning, updateTimer]: when isRunning differs from the
\* previous render its cleanup runs and then its body; a body that ends the
\* countdown at once is followed by one more render, whose cleanup runs
RECURSIVE TimerEffect(_, _)
TimerEffect(wasRunning, s) ==
  IF s.isRunning = wasRunning THEN s
  ELSE
    LET c == ClearTimer(s)
    IN  IF c.isRunning /\ c.endTimeRef # Null
        THEN TimerEffect(TRUE, ArmTimer(UpdateTimer(c)))
        ELSE c

\* startTask keeping a deadline that is already set
StartTaskOn_KeepsDeadline(s, items, index) ==
  [s EXCEPT !.currentTaskIndex = Some(index),
            !.endTimeRef = IF s.endTimeRef # Null THEN s.endTimeRef
                           ELSE Some(now + items[index + 1].duration * 60 * 1000),
            !.timeRemaining = Some(items[index + 1].duration * 60),
            !.isRunning = TRUE]

StartTaskOn(s, items, index) ==
  [s EXCEPT !.currentTaskIndex = Some(index),
            !.endTimeRef = Some(now + items[index + 1].duration * 60 * 1000),
            !.timeRemaining = Some(items[index + 1].duration * 60),
            !.isRunning = TRUE]

PauseTaskOn(s) ==
  LET p == [s EXCEPT !.isRunning = FALSE]
      q == IF p.endTimeRef # Null
           THEN [p EXCEPT !.timeRemaining =
                   Some(CeilSeconds(Max(0, Val(p.endTimeRef) - now)))]
           ELSE p
  IN  ClearTimer(q)

ResumeTaskOn(s) ==
  IF s.timeRemaining # Null /\ Val(s.timeRemaining) > 0
  THEN [s EXCEPT !.endTimeRef = Some(now + Val(s.timeRemaining) * 1000),
                 !.isRunning = TRUE]
  ELSE s

\* completeTask leaving endTimeRef as it is
AdvanceOn_KeepsDeadline(s, items) ==
  LET c == ClearTimer(s)
  IN  IF Val(s.currentTaskIndex) < Len(items) - 1
      THEN StartTaskOn(c, items, Val(s.currentTaskIndex) + 1)
      ELSE [c EXCEPT !.currentTaskIndex = Null, !.timeRemaining = Null,
                     !.isRunning = FALSE]

\* completeTask after the block is marked: clear the timer, then start the
\* next block or leave the session idle
AdvanceOn(s, items) ==
  LET c == [ClearTimer(s) EXCEPT !.endTimeRef = Null]
  IN  IF Val(s.currentTaskIndex) < Len(items) - 1
      THEN StartTaskOn(c, items, Val(s.currentTaskIndex) + 1)
      ELSE [c EXCEPT !.currentTaskIndex = Null, !.timeRemaining = Null,
                     !.isRunning = FALSE]

\* skipTask starting the current block again instead of the next one
SkipAdvanceOn_Restart(s, items) ==
  LET c == [ClearTimer(s) EXCEPT !.endTimeRef = Null]
  IN  IF Val(s.currentTaskIndex) < Len(items) - 1
      THEN StartTaskOn(c, items, Val(s.currentTaskIndex))
      ELSE [c EXCEPT !.currentTaskIndex = Null, !.timeRemaining = Null,
                     !.isRunning = FALSE]

\* skipTask: clear the timer, then start the next block or leave the
\* session idle
SkipAdvanceOn(s, items) ==
  LET c == [ClearTimer(s) EXCEPT !.endTimeRef = Null]
  IN  IF Val(s.currentTaskIndex) < Len(items) - 1
      THEN StartTaskOn(c, items, Val(s.currentTaskIndex) + 1)
      ELSE [c EXCEPT !.currentTaskIndex = Null, !.timeRemaining = Null,
                     !.isRunning = FALSE]

\* marking every block completed
MarkCompleted_All(items, index) ==
  [k \in 1..Len(items) |-> [items[k] EXCEPT !.completed = TRUE]]

\* mutant: the first block is the one marked
MarkCompleted_First(items, index) == [items EXCEPT ![1].completed = TRUE]

MarkCompleted(items, index) == [items EXCEPT ![index + 1].completed = TRUE]

(***************************************************************************)
(* The handlers.  lastOp records which handler ran last and how it ended.  *)
(***************************************************************************)
Indices(items) == 0..(Len(items) - 1)

\* the screen with the task views, the schedule and the session is rendered
UIReady == ~isLoading /\ workspace # Null

\* mutant: the new schedule is set but the session is left as it was
GenerateSchedule_KeepsSession ==
  /\ Len(todaysTasks) > 0
  /\ schedule' = Some(Generate(todaysTasks, startTime))
  /\ lastOp' = "generate"
  /\ UNCHANGED <<storeVars, todaysTasks, startTime, sessionVars, draggedScheduleItem, now>>

\* mutant: the flexible tasks are sorted in the task list itself
GenerateSchedule_SortsInPlace ==
  /\ Len(todaysTasks) > 0
  /\ schedule' = Some(Generate(todaysTasks, startTime))
  /\ todaysTasks' = SortBy(todaysTasks,
        [i \in 1..Len(todaysTasks) |->
           IF HasFixedTime(todaysTasks[i]) THEN 0 ELSE CategoryKey(todaysTasks[i])])
  /\ SetSession(TimerEffect(isRunning,
        [Session EXCEPT !.currentTaskIndex = Null, !.timeRemaining = Null,
                        !.isRunning = FALSE]))
  /\ lastOp' = "generate"
  /\ UNCHANGED <<storeVars, startTime, draggedScheduleItem, now>>

\* the Generate Schedule button, disabled while there is no task for today
GenerateSchedule ==
  /\ UIReady
  /\ Len(todaysTasks) > 0
  /\ schedule' = Some(Generate(todaysTasks, startTime))
  /\ SetSession(TimerEffect(isRunning,
        [Session EXCEPT !.currentTaskIndex = Null, !.timeRemaining = Null,
                        !.isRunning = FALSE]))
  /\ lastOp' = "generate"
  /\ UNCHANGED <<storeVars, todaysTasks, startTime, draggedScheduleItem, now>>

\* the Start Time input
SetStartTime(t) ==
  /\ t # startTime
  /\ startTime' = t
  /\ lastOp' = "setStartTime"
  /\ UNCHANGED <<storeVars, todaysTasks, schedule, sessionVars, draggedScheduleItem, now>>

\* a schedule block is draggable unless it is fixed or the current one
HandleScheduleDragStart(index) ==
  /\ schedule # Null
  /\ index \in Indices(Val(schedule))
  /\ ~Val(schedule)[index + 1].isFixed
  /\ currentTaskIndex # Some(index)
  /\ draggedScheduleItem' = Some(index)
  /\ lastOp' = "dragStart"
  /\ UNCHANGED <<storeVars, todaysTasks, startTime, schedule, sessionVars, now>>

\* a drop on the schedule block at targetIndex
HandleScheduleDrop(targetIndex) ==
  /\ schedule # Null
  /\ targetIndex \in Indices(Val(schedule))
  /\ IF DropIgnored(targetIndex) THEN
       /\ draggedScheduleItem' = Null
       /\ lastOp' = IF draggedScheduleItem = Null THEN "dropNoDrag" ELSE "dropOnSelf"
       /\ UNCHANGED schedule
     ELSE IF DropThrows(targetIndex) THEN
       /\ lastOp' = "dropThrows"
       /\ UNCHANGED <<schedule, draggedScheduleItem>>
     ELSE IF DropOfFixed(targetIndex) THEN
       /\ draggedScheduleItem' = Null
       /\ lastOp' = "dropOfFixed"
       /\ UNCHANGED schedule
     ELSE
       /\ schedule' = Some(Repack(MoveItem(Val(schedule), Val(draggedScheduleItem),
                                           targetIndex), startTime))
       /\ draggedScheduleItem' = Null
       /\ lastOp' = "dropAccepted"
  /\ UNCHANGED <<storeVars, todaysTasks, startTime, sessionVars, now>>

\* startTask(index) and the render that follows it
StartTaskCall(index) ==
  /\ schedule # Null
  /\ index \in Indices(Val(schedule))
  /\ SetSession(TimerEffect(isRunning, StartTaskOn(Session, Val(schedule), index)))
  /\ lastOp' = "start"
  /\ UNCHANGED <<storeVars, todaysTasks, startTime, schedule, draggedScheduleItem, now>>

\* the Start button of a block that is neither completed nor current
StartTask(index) ==
  /\ UIReady
  /\ schedule # Null
  /\ index \in Indices(Val(schedule))
  /\ ~Val(schedule)[index + 1].completed
  /\ currentTaskIndex # Some(index)
  /\ StartTaskCall(index)

\* the current-task panel is shown while there is a current block
PanelShown == currentTaskIndex # Null /\ schedule # Null

\* pauseTask() and the render that follows it
PauseTaskCall ==
  /\ SetSession(TimerEffect(isRunning, PauseTaskOn(Session)))
  /\ lastOp' = "pause"
  /\ UNCHANGED <<storeVars, todaysTasks, startTime, schedule, draggedScheduleItem, now>>

\* the Pause button, shown while the countdown runs
PauseTask == PanelShown /\ isRunning /\ PauseTaskCall

\* resumeTask() and the render that follows it
ResumeTaskCall ==
  /\ SetSession(TimerEffect(isRunning, ResumeTaskOn(Session)))
  /\ lastOp' = "resume"
  /\ UNCHANGED <<storeVars, todaysTasks, startTime, schedule, draggedScheduleItem, now>>

\* the Resume button, shown while the countdown is stopped with time left
ResumeTask ==
  /\ PanelShown /\ ~isRunning
  /\ timeRemaining # Null /\ Val(timeRemaining) > 0
  /\ ResumeTaskCall

\* if (schedule === null || currentTaskIndex === null) return
NoCurrentBlock == schedule = Null \/ currentTaskIndex = Null

\* completeTask() and the render that follows it
CompleteTaskCall ==
  /\ IF NoCurrentBlock
     THEN /\ lastOp' = "completeReturned"
          /\ UNCHANGED <<schedule, sessionVars>>
     ELSE /\ schedule' = Some(MarkCompleted(Val(schedule), Val(currentTaskIndex)))
          /\ SetSession(TimerEffect(isRunning, AdvanceOn(Session, Val(schedule))))
          /\ lastOp' = "complete"
  /\ UNCHANGED <<storeVars, todaysTasks, startTime, draggedScheduleItem, now>>

\* the Complete button of the current-task panel
CompleteTask == PanelShown /\ CompleteTaskCall

\* skipTask() and the render that follows it
SkipTaskCall ==
  /\ IF NoCurrentBlock
     THEN /\ lastOp' = "skipReturned"
          /\ UNCHANGED sessionVars
     ELSE /\ SetSession(TimerEffect(isRunning, SkipAdvanceOn(Session, Val(schedule))))
          /\ lastOp' = "skip"
  /\ UNCHANGED <<storeVars, todaysTasks, startTime, schedule, draggedScheduleItem, now>>

\* the Skip button of the current-task panel
SkipTask == PanelShown /\ SkipTaskCall

\* an armed interval callback runs updateTimer
TimerFires ==
  /\ intervals > 0
  /\ SetSession(TimerEffect(isRunning, UpdateTimer(Session)))
  /\ lastOp' = "timer"
  /\ UNCHANGED <<storeVars, todaysTasks, startTime, schedule, draggedScheduleItem, now>>

\* the clock readings at which the handlers are observed, in milliseconds
ClockReadings == {0, 500, 60500, 61000}

\* time passes
Tick(t) ==
  /\ t > now
  /\ now' = t
  /\ lastOp' = "tick"
  /\ UNCHANGED <<storeVars, todaysTasks, startTime, schedule, sessionVars, draggedScheduleItem>>

(***************************************************************************)
(* The task store and the asynchronous handlers that talk to it.  The      *)
(* store is the record [rows, nextId]: the rows of the tasks table in      *)
(* created_at order and the id the server assigns next.  A handler sends   *)
(* its request and suspends at its await; the request keeps the allTasks   *)
(* and todaysTasks its closure captured.  The store then handles the       *)
(* request and the response resumes the handler: a request goes "sent" ->  *)
(* "ok" -> "done".  A request that fails changes nothing in the store, so  *)
(* its failure and the catch of its handler are one step: "sent" ->        *)
(* "failed".                                                               *)
(***************************************************************************)
Today == "today"

MaxStoreRows == 2

MaxRequests == 2

\* no more than MaxRequests requests follow the one of loadTasks
MayRequest == Len(requests) <= MaxRequests

\* dbToLocal
DbToLocal(row) ==
  [id |-> row.id, name |-> row.name, duration |-> row.duration,
   category |-> row.category, dueDate |-> row.due_date,
   fixedTime |-> row.fixed_time, notes |-> row.notes]

MapDbToLocal(rows) == [k \in 1..Len(rows) |-> DbToLocal(rows[k])]

\* tasks.filter(task => task.dueDate === today)
DueToday(task) == task.dueDate = Today

\* tasks.filter(task => task.id !== id)
WithoutId(tasks, id) ==
  LET Keep(task) == task.id # id
  IN  SelectSeq(tasks, Keep)

\* tasks.find(t => t.id === id) finds a task
HasId(tasks, id) == \E k \in 1..Len(tasks) : tasks[k].id = id

\* allTasks.map(task => task.id === taskId ? { ...task, dueDate: newDate } : task)
WithDueDate(tasks, taskId, newDate) ==
  [k \in 1..Len(tasks) |->
     IF tasks[k].id = taskId THEN [tasks[k] EXCEPT !.dueDate = newDate] ELSE tasks[k]]

\* the request a handler sends, with what its closure holds
Request(op, args) ==
  [op |-> op, args |-> args, workspace |-> workspace,
   allTasks |-> allTasks, todaysTasks |-> todaysTasks,
   state |-> "sent", data |-> Null]

\* newTask.name && newTask.duration && newTask.category && newTask.dueDate && workspace
FormFilled(form) ==
  /\ form.name # Null /\ form.duration # Null
  /\ form.category # Null /\ form.dueDate # Null
  /\ workspace # Null

\* addTask() up to its await
AddTask(form) ==
  /\ UIReady /\ MayRequest
  /\ IF FormFilled(form)
     THEN /\ requests' = Append(requests, Request("insert", form))
          /\ lastOp' = "add"
     ELSE /\ lastOp' = "addIgnored"
          /\ UNCHANGED requests
  /\ UNCHANGED <<workspace, isLoading, allTasks, store, todaysTasks, startTime,
                 schedule, sessionVars, draggedScheduleItem, now>>

\* deleteTask(id, fromToday) up to its await: the trash button of a task of
\* the today view (fromToday) or of the upcoming and past views, which
\* between them show every task of allTasks (dueDate >= today, dueDate < today)
DeleteTask(id, fromToday) ==
  /\ UIReady /\ MayRequest
  /\ IF fromToday THEN HasId(todaysTasks, id) ELSE HasId(allTasks, id)
  /\ requests' = Append(requests, Request("delete", [id |-> id, fromToday |-> fromToday]))
  /\ lastOp' = "delete"
  /\ UNCHANGED <<workspace, isLoading, allTasks, store, todaysTasks, startTime,
                 schedule, sessionVars, draggedScheduleItem, now>>

\* rescheduleTask(taskId, newDate) up to its await: the Today and Tomorrow
\* buttons of a task of the past view
RescheduleTask(taskId, newDate) ==
  /\ UIReady /\ MayRequest
  /\ \E k \in 1..Len(allTasks) :
       allTasks[k].id = taskId /\ allTasks[k].dueDate = "yesterday"
  /\ requests' = Append(requests, Request("update", [id |-> taskId, newDate |-> newDate]))
  /\ lastOp' = "reschedule"
  /\ UNCHANGED <<workspace, isLoading, allTasks, store, todaysTasks, startTime,
                 schedule, sessionVars, draggedScheduleItem, now>>

\* the row insert(...).select().single() creates and returns
InsertedRow(r) ==
  [id |-> store.nextId, name |-> Val(r.args.name), duration |-> Val(r.args.duration),
   category |-> Val(r.args.category), due_date |-> Val(r.args.dueDate),
   fixed_time |-> r.args.fixedTime, notes |-> r.args.notes,
   workspace |-> Val(r.workspace)]

\* what the store is after it carried out the request r
StoreAfter(r) ==
  IF r.op = "insert"
  THEN [rows |-> Append(store.rows, InsertedRow(r)), nextId |-> store.nextId + 1]
  ELSE IF r.op = "delete"
  THEN LET Keep(row) == row.id # r.args.id
       IN  [store EXCEPT !.rows = SelectSeq(store.rows, Keep)]
  ELSE IF r.op = "update"
  THEN [store EXCEPT !.rows =
          [k \in 1..Len(store.rows) |->
             IF store.rows[k].id = r.args.id
             THEN [store.rows[k] EXCEPT !.due_date = r.args.newDate]
             ELSE store.rows[k]]]
  ELSE store

\* the data of the response to the request r
StoreData(r) ==
  IF r.op = "insert" THEN Some(InsertedRow(r))
  ELSE IF r.op = "select"
  THEN LET Mine(row) == row.workspace = Val(r.workspace)
       IN  Some(SelectSeq(store.rows, Mine))
  ELSE Null

\* the store carries out the k-th request
StoreSucceeds(k) ==
  /\ k \in 1..Len(requests) /\ requests[k].state = "sent"
  /\ store' = StoreAfter(requests[k])
  /\ requests' = [requests EXCEPT ![k].state = "ok", ![k].data = StoreData(requests[k])]
  /\ UNCHANGED <<workspace, isLoading, allTasks, todaysTasks, startTime,
                 schedule, sessionVars, draggedScheduleItem, now, lastOp>>

\* loadTasks after its await, without its finally
LoadedTasks(r) ==
  LET localTasks == MapDbToLocal(Val(r.data))
  IN  /\ allTasks' = localTasks
      /\ todaysTasks' = SelectSeq(localTasks, DueToday)

\* addTask after its await
AddedTask(r) ==
  LET localTask == DbToLocal(Val(r.data))
  IN  /\ allTasks' = Append(r.allTasks, localTask)
      /\ todaysTasks' = IF Val(r.args.dueDate) = Today
                        THEN Append(r.todaysTasks, localTask)
                        ELSE todaysTasks

\* deleteTask after its await
DeletedTask(r) ==
  /\ allTasks' = WithoutId(r.allTasks, r.args.id)
  /\ todaysTasks' = IF r.args.fromToday
                    THEN WithoutId(r.todaysTasks, r.args.id)
                    ELSE todaysTasks

\* rescheduleTask after its await: the last setTodaysTasks of the handler,
\* the one of loadTodaysTasks(updatedTasks), is the one that counts
RescheduledTask(r) ==
  LET updatedTasks == WithDueDate(r.allTasks, r.args.id, r.args.newDate)
  IN  /\ allTasks' = updatedTasks
      /\ todaysTasks' = SelectSeq(updatedTasks, DueToday)

\* the handler of the request r has returned: its closure is gone
Settled(r, state) ==
  [op |-> r.op, args |-> Null, workspace |-> r.workspace,
   allTasks |-> <<>>, todaysTasks |-> <<>>, state |-> state, data |-> Null]

\* finally { setIsLoading(false) } of loadTasks
LoadSettles(r) == isLoading' = IF r.op = "select" THEN FALSE ELSE isLoading

\* the response to the k-th request resumes its handler after the await
Deliver(k) ==
  /\ k \in 1..Len(requests) /\ requests[k].state = "ok"
  /\ LET r == requests[k]
     IN  /\ IF r.op = "select" THEN LoadedTasks(r)
            ELSE IF r.op = "insert" THEN AddedTask(r)
            ELSE IF r.op = "delete" THEN DeletedTask(r)
            ELSE RescheduledTask(r)
         /\ LoadSettles(r)
         /\ requests' = [requests EXCEPT ![k] = Settled(r, "done")]
  /\ lastOp' = "delivered"
  /\ UNCHANGED <<workspace, store, startTime, schedule, sessionVars,
                 draggedScheduleItem, now>>

\* mutant: the handler applies its change to the lists before it looks at
\* the error
RequestFails_AppliesAnyway(k) ==
  /\ k \in 1..Len(requests) /\ requests[k].state = "sent"
  /\ LET r == requests[k]
     IN  /\ IF r.op = "delete" THEN DeletedTask(r)
            ELSE UNCHANGED <<allTasks, todaysTasks>>
         /\ LoadSettles(r)
         /\ requests' = [requests EXCEPT ![k] = Settled(r, "failed")]
  /\ lastOp' = "failed"
  /\ UNCHANGED <<workspace, store, startTime, schedule, sessionVars,
                 draggedScheduleItem, now>>

\* the k-th request fails: if (error) throw error, then the catch
RequestFails(k) ==
  /\ k \in 1..Len(requests) /\ requests[k].state = "sent"
  /\ LET r == requests[k]
     IN  /\ LoadSettles(r)
         /\ requests' = [requests EXCEPT ![k] = Settled(r, "failed")]
  /\ lastOp' = "failed"
  /\ UNCHANGED <<workspace, allTasks, todaysTasks, store, startTime, schedule,
                 sessionVars, draggedScheduleItem, now>>

(***************************************************************************)
(* The workspace.  A passcode selects it; the effect on [workspace] runs   *)
(* in the render that follows and sends the request of loadTasks.  While   *)
(* isLoading is set the component renders the loading screen only, and     *)
(* while no workspace is selected the login screen only.                   *)
(***************************************************************************)
\* WORKSPACES
WORKSPACES == [work123 |-> "work", personal456 |-> "personal"]

\* WORKSPACES[passcode], undefined for a passcode that is not a key
WorkspaceOf(passcode) ==
  IF passcode \in DOMAIN WORKSPACES THEN Some(WORKSPACES[passcode]) ELSE Null

\* the request loadTasks sends for the workspace ws
LoadRequest(ws) ==
  [op |-> "select", args |-> Null, workspace |-> Some(ws),
   allTasks |-> allTasks, todaysTasks |-> todaysTasks,
   state |-> "sent", data |-> Null]

\* handleLogin() on the login screen, and loadTasks up to its await
HandleLogin(passcode) ==
  /\ ~isLoading /\ workspace = Null /\ MayRequest
  /\ LET ws == WorkspaceOf(passcode)
     IN  IF ws # Null
         THEN /\ workspace' = ws
              /\ isLoading' = TRUE
              /\ requests' = Append(requests, LoadRequest(Val(ws)))
              /\ lastOp' = "login"
         ELSE /\ lastOp' = "loginRejected"
              /\ UNCHANGED <<workspace, isLoading, requests>>
  /\ UNCHANGED <<allTasks, store, todaysTasks, startTime, schedule, sessionVars,
                 draggedScheduleItem, now>>

\* mutant: the lists are left as they are
HandleLogout_KeepsLists ==
  /\ UIReady
  /\ workspace' = Null
  /\ schedule' = Null
  /\ lastOp' = "logout"
  /\ UNCHANGED <<isLoading, requests, store, allTasks, todaysTasks, startTime,
                 sessionVars, draggedScheduleItem, now>>

\* handleLogout(), the button in the header of the main screen
HandleLogout ==
  /\ UIReady
  /\ workspace' = Null
  /\ allTasks' = <<>>
  /\ todaysTasks' = <<>>
  /\ schedule' = Null
  /\ lastOp' = "logout"
  /\ UNCHANGED <<isLoading, requests, store, startTime, sessionVars,
                 draggedScheduleItem, now>>

(***************************************************************************)
(* The explored inputs.                                                    *)
(***************************************************************************)
\* the values of the Start Time input ('09:00' is the initial one)
StartTimes == {<<9, 0>>, <<9, 22>>}

TaskShape(duration, category, fixedTime, notes) ==
  [duration |-> duration, category |-> category, fixedTime |-> fixedTime, notes |-> notes]

\* flexible tasks of 3 and 17 minutes in two categories; anchors at 09:10
\* and 09:30, two of them overlapping
SchedShapes ==
  { TaskShape(d, c, Null, Null) : d \in {3, 17}, c \in {"Admin", "Personal"} }
  \cup { TaskShape(3, "Internal Meeting", <<9, 10>>, Null),
         TaskShape(3, "Internal Meeting", <<9, 30>>, "agenda"),
         TaskShape(17, "External Meeting", <<9, 30>>, Null) }

\* the tasks of a list of shapes: the k-th one gets the id and the name k
TasksOf(shapes) ==
  [k \in 1..Len(shapes) |->
     [id |-> k, name |-> k, duration |-> shapes[k].duration,
      category |-> shapes[k].category, dueDate |-> Today,
      fixedTime |-> shapes[k].fixedTime, notes |-> shapes[k].notes]]

ShapeLists(shapes, n) == UNION { [1..k -> shapes] : k \in 0..n }

\* no schedule, an idle session, the clock at 0
InitIdle ==
  /\ startTime = <<9, 0>>
  /\ schedule = Null
  /\ currentTaskIndex = Null
  /\ timeRemaining = Null
  /\ isRunning = FALSE
  /\ draggedScheduleItem = Null
  /\ timerRef = Null
  /\ endTimeRef = Null
  /\ intervals = 0
  /\ alertsPlayed = 0
  /\ now = 0
  /\ lastOp = "init"

\* the rows the store holds for the tasks of the workspace ws
RowsOf(tasks, ws) ==
  [k \in 1..Len(tasks) |->
     [id |-> tasks[k].id, name |-> tasks[k].name, duration |-> tasks[k].duration,
      category |-> tasks[k].category, due_date |-> tasks[k].dueDate,
      fixed_time |-> tasks[k].fixedTime, notes |-> tasks[k].notes,
      workspace |-> ws]]

\* the tasks, all due today, are loaded and nothing else has happened
InitWith(tasks) ==
  /\ workspace = Some("work")
  /\ isLoading = FALSE
  /\ allTasks = tasks
  /\ store = [rows |-> RowsOf(tasks, "work"), nextId |-> Len(tasks) + 1]
  /\ requests = <<>>
  /\ todaysTasks = tasks
  /\ InitIdle

(***************************************************************************)
(* SpecSched: the scheduler alone, over every list of at most MaxTasks     *)
(* tasks.                                                                  *)
(***************************************************************************)
InitSched == \E l \in ShapeLists(SchedShapes, MaxTasks) : InitWith(TasksOf(l))

NextSched ==
  \/ GenerateSchedule
  \/ \E t \in StartTimes : SetStartTime(t)
  \/ \E i \in 0..(MaxTasks - 1) : HandleScheduleDragStart(i)
  \/ \E i \in 0..(MaxTasks - 1) : HandleScheduleDrop(i)

SpecSched == InitSched /\ [][NextSched]_vars

(***************************************************************************)
(* Spec: the scheduler and the session together, over every list of at     *)
(* most MaxSessionTasks short tasks.                                       *)
(***************************************************************************)
MaxSessionTasks == 2

\* a flexible task of 1 minute and a 1-minute anchor at 09:30
SessionShapes ==
  { TaskShape(1, "Personal", Null, "notes"),
    TaskShape(1, "Internal Meeting", <<9, 30>>, Null) }

Init == \E l \in ShapeLists(SessionShapes, MaxSessionTasks) : InitWith(TasksOf(l))

Next ==
  \/ GenerateSchedule
  \/ \E t \in StartTimes : SetStartTime(t)
  \/ \E i \in 0..(MaxSessionTasks - 1) : HandleScheduleDragStart(i)
  \/ \E i \in 0..(MaxSessionTasks - 1) : HandleScheduleDrop(i)
  \/ \E i \in 0..(MaxSessionTasks - 1) : StartTask(i)
  \/ PauseTask
  \/ ResumeTask
  \/ CompleteTask
  \/ SkipTask
  \/ TimerFires
  \/ \E t \in ClockReadings : Tick(t)

Spec == Init /\ [][Next]_vars

(***************************************************************************)
(* SpecCalls: the session's operations called in any state, whatever       *)
(* buttons are shown, on a schedule generated for the initial start time.  *)
(***************************************************************************)
\* the session shapes and a flexible task of 2 minutes
CallShapes == SessionShapes \cup { TaskShape(2, "Admin", Null, Null) }

\* the clock readings, with two more behind the end of a resumed countdown
CallClockReadings == ClockReadings \cup {120500, 121000}

InitCalls == \E l \in ShapeLists(CallShapes, MaxSessionTasks) : InitWith(TasksOf(l))

NextCalls ==
  \/ GenerateSchedule
  \/ \E i \in 0..(MaxSessionTasks - 1) : StartTaskCall(i)
  \/ PauseTaskCall
  \/ ResumeTaskCall
  \/ CompleteTaskCall
  \/ SkipTaskCall
  \/ TimerFires
  \/ \E t \in CallClockReadings : Tick(t)

SpecCalls == InitCalls /\ [][NextCalls]_vars

(***************************************************************************)
(* SpecStore: the task views on top of the store.  The component was       *)
(* mounted with the saved workspace "work" and its loadTasks is waiting    *)
(* for the store, which holds at most MaxStoreRows rows; at most           *)
(* MaxRequests further requests are sent.                                  *)
(***************************************************************************)
\* a row of the tasks table
StoreRow(duration, category, dueDate, fixedTime, ws) ==
  [duration |-> duration, category |-> category, dueDate |-> dueDate,
   fixedTime |-> fixedTime, notes |-> Null, ws |-> ws]

\* a task due today, an overdue task, and a task of another workspace
StoreShapes ==
  { StoreRow(1, "Personal", Today, Null, "work"),
    StoreRow(1, "Admin", "yesterday", Null, "work"),
    StoreRow(1, "Admin", Today, Null, "personal") }

\* the rows of a list of shapes: the k-th one has the id and the name k
StoreRowsOf(shapes) ==
  [k \in 1..Len(shapes) |->
     [id |-> k, name |-> k, duration |-> shapes[k].duration,
      category |-> shapes[k].category, due_date |-> shapes[k].dueDate,
      fixed_time |-> shapes[k].fixedTime, notes |-> shapes[k].notes,
      workspace |-> shapes[k].ws]]

\* the Add Task form: filled for today, filled for tomorrow, and without a
\* name; the duration and the fixed time are the values the form's strings
\* stand for
NewTaskForms ==
  { [name |-> Some(7), duration |-> Some(1), category |-> Some("Admin"),
     dueDate |-> Some(Today), fixedTime |-> Null, notes |-> Null],
    [name |-> Some(8), duration |-> Some(1), category |-> Some("Personal"),
     dueDate |-> Some("tomorrow"), fixedTime |-> Null, notes |-> Null],
    [name |-> Null, duration |-> Some(1), category |-> Some("Admin"),
     dueDate |-> Some(Today), fixedTime |-> Null, notes |-> Null] }

\* the ids a task can have
TaskIds == 1..(MaxStoreRows + MaxRequests)

InitStore ==
  /\ \E l \in ShapeLists(StoreShapes, MaxStoreRows) :
       store = [rows |-> StoreRowsOf(l), nextId |-> Len(l) + 1]
  /\ workspace = Some("work")
  /\ isLoading = TRUE
  /\ allTasks = <<>>
  /\ todaysTasks = <<>>
  /\ requests = << [op |-> "select", args |-> Null, workspace |-> Some("work"),
                    allTasks |-> <<>>, todaysTasks |-> <<>>,
                    state |-> "sent", data |-> Null] >>
  /\ InitIdle

NextStore ==
  \/ \E form \in NewTaskForms : AddTask(form)
  \/ \E id \in TaskIds, fromToday \in BOOLEAN : DeleteTask(id, fromToday)
  \/ \E id \in TaskIds, d \in {Today, "tomorrow"} : RescheduleTask(id, d)
  \/ \E k \in 1..(MaxRequests + 1) : StoreSucceeds(k)
  \/ \E k \in 1..(MaxRequests + 1) : Deliver(k)
  \/ \E k \in 1..(MaxRequests + 1) : RequestFails(k)
  \/ GenerateSchedule
  \/ \E i \in 0..(MaxStoreRows + MaxRequests - 1) : StartTask(i)

SpecStore == InitStore /\ [][NextStore]_vars

(***************************************************************************)
(* SpecWorkspace: logins, logouts and the loads they start.  The component *)
(* was mounted with a saved workspace, its loadTasks waiting for the       *)
(* store, or with none, showing the login screen.                          *)
(***************************************************************************)
\* the passcodes typed: the two of WORKSPACES and a wrong one
Passcodes == {"work123", "personal456", "letmein"}

\* localStorage.getItem('taskSchedulerWorkspace')
SavedWorkspaces == {Null, Some("work"), Some("personal")}

InitWorkspace ==
  /\ \E l \in ShapeLists(StoreShapes, MaxStoreRows) :
       store = [rows |-> StoreRowsOf(l), nextId |-> Len(l) + 1]
  /\ allTasks = <<>>
  /\ todaysTasks = <<>>
  /\ \E savedWorkspace \in SavedWorkspaces :
       /\ workspace = savedWorkspace
       /\ isLoading = (savedWorkspace # Null)
       /\ requests = IF savedWorkspace = Null THEN <<>>
                     ELSE << [op |-> "select", args |-> Null, workspace |-> savedWorkspace,
                              allTasks |-> <<>>, todaysTasks |-> <<>>,
                              state |-> "sent", data |-> Null] >>
  /\ InitIdle

NextWorkspace ==
  \/ \E passcode \in Passcodes : HandleLogin(passcode)
  \/ HandleLogout
  \/ \E k \in 1..(MaxRequests + 1) : StoreSucceeds(k)
  \/ \E k \in 1..(MaxRequests + 1) : Deliver(k)
  \/ \E k \in 1..(MaxRequests + 1) : RequestFails(k)
  \/ GenerateSchedule

SpecWorkspace == InitWorkspace /\ [][NextWorkspace]_vars

(***************************************************************************)
(* Properties of a schedule.                                               *)
(***************************************************************************)
Sched == Val(schedule)

Generated == lastOp = "generate"

Reordered == lastOp = "dropAccepted"

Pairs(items) == 1..(Len(items) - 1)

SortedByStart(items) == \A i \in Pairs(items) : items[i].start <= items[i + 1].start

NoOverlap(items) == \A i \in Pairs(items) : items[i].end <= items[i + 1].start

GapAfter(items, i) == items[i + 1].start - items[i].end

RECURSIVE SumDurations(_)
SumDurations(s) == IF s = <<>> THEN 0 ELSE s[1].duration + SumDurations(Tail(s))

\* the anchors among the tasks are pairwise non-overlapping meetings
AnchorsDisjoint(tasks) ==
  \A a, b \in 1..Len(tasks) :
    (a # b /\ tasks[a].fixedTime # Null /\ tasks[b].fixedTime # Null) =>
      LET sa == tasks[a].fixedTime[1] * 60 + tasks[a].fixedTime[2]
          sb == tasks[b].fixedTime[1] * 60 + tasks[b].fixedTime[2]
      IN  sa + tasks[a].duration <= sb \/ sb + tasks[b].duration <= sa

\* C1: generate returns exactly one block per input task, none dropped and
\* none duplicated, and the blocks' durations add up to the tasks' durations.
C1_OneBlockPerTask ==
  Generated =>
    /\ Len(Sched) = Len(todaysTasks)
    /\ \A k \in 1..Len(todaysTasks) :
         Cardinality({i \in 1..Len(Sched) :
                        /\ Sched[i].task = todaysTasks[k].name
                        /\ Sched[i].duration = todaysTasks[k].duration
                        /\ Sched[i].isFixed = (todaysTasks[k].fixedTime # Null)}) = 1
    /\ SumDurations(Sched) = SumDurations(todaysTasks)

C1_Witness ==
  /\ Generated /\ Len(Sched) = 3
  /\ \E i, j \in 1..3 : Sched[i].isFixed /\ ~Sched[j].isFixed
  /\ \E i \in 1..2 : ~Sched[i].isFixed /\ Sched[i + 1].isFixed /\ ~Sched[3].isFixed

\* C2 as stated: every generated schedule is sorted by start and has no two
\* overlapping adjacent blocks, whatever the tasks are.
C2_SortedNoOverlap_Original ==
  Generated => SortedByStart(Sched) /\ NoOverlap(Sched)

\* C2 as amended: every generated schedule is sorted by start, and it has
\* no two overlapping adjacent blocks when the anchors themselves are
\* pairwise non-overlapping.
C2_SortedNoOverlap ==
  Generated =>
    /\ SortedByStart(Sched)
    /\ AnchorsDisjoint(todaysTasks) => NoOverlap(Sched)

C2_Witness ==
  /\ Generated /\ AnchorsDisjoint(todaysTasks) /\ Len(Sched) = 3
  /\ Sched[1].isFixed /\ ~Sched[2].isFixed /\ Sched[3].isFixed

\* C3: in a generated schedule every anchor block starts exactly at its
\* task's fixedTime and ends exactly duration minutes later.
C3_AnchorsAtFixedTime ==
  Generated =>
    \A k \in 1..Len(todaysTasks) :
      todaysTasks[k].fixedTime # Null =>
        \E i \in 1..Len(Sched) :
          /\ Sched[i].task = todaysTasks[k].name
          /\ Sched[i].start = todaysTasks[k].fixedTime[1] * 60 + todaysTasks[k].fixedTime[2]
          /\ Sched[i].end = Sched[i].start + todaysTasks[k].duration

\* two overlapping anchors and an anchor that lies before the start time
C3_Witness ==
  /\ Generated /\ Len(Sched) = 3 /\ startTime = <<9, 22>>
  /\ Sched[1].isFixed /\ Sched[2].isFixed /\ ~Sched[3].isFixed
  /\ Sched[1].start < 9 * 60 + 22
  /\ Sched[2].start < Sched[1].end

OneIsFlexible(items, i) == ~items[i].isFixed \/ ~items[i + 1].isFixed

\* C4 as stated: in a generated schedule two consecutive blocks of which at
\* least one is flexible are exactly 5 minutes apart.
C4_ExactBuffer_Original ==
  Generated =>
    \A i \in Pairs(Sched) : OneIsFlexible(Sched, i) => GapAfter(Sched, i) = 5

\* C4 as amended: in a generated schedule a flexible block that follows a
\* flexible or a fixed block starts exactly 5 minutes after it, and a fixed
\* block that follows a flexible block starts at least 5 minutes after it.
C4_ExactBuffer ==
  Generated =>
    \A i \in Pairs(Sched) :
      /\ ~Sched[i + 1].isFixed => GapAfter(Sched, i) = 5
      /\ (~Sched[i].isFixed /\ Sched[i + 1].isFixed) => GapAfter(Sched, i) >= 5

C4_Witness ==
  /\ Generated /\ Len(Sched) = 3
  /\ ~Sched[1].isFixed /\ Sched[2].isFixed /\ ~Sched[3].isFixed
  /\ GapAfter(Sched, 1) > 5 /\ GapAfter(Sched, 2) = 5

\* C5: in a generated schedule two consecutive blocks of which at least one
\* is flexible are at least 5 minutes apart.
C5_MinBuffer ==
  Generated =>
    \A i \in Pairs(Sched) : OneIsFlexible(Sched, i) => GapAfter(Sched, i) >= 5

\* flexible blocks around overlapping anchors
C5_Witness ==
  /\ Generated /\ Len(Sched) = 3 /\ ~AnchorsDisjoint(todaysTasks)
  /\ Sched[1].isFixed /\ Sched[2].isFixed /\ ~Sched[3].isFixed
  /\ Sched[3].start < Sched[1].end

\* the first fixed block behind position i, or 0: the anchor that was
\* pending when the flexible block at i was placed
NextFixed(items, i) ==
  LET later == {j \in (i + 1)..Len(items) : items[j].isFixed}
  IN  IF later = {} THEN 0 ELSE CHOOSE j \in later : \A k \in later : j <= k

\* C6: a flexible task is placed before a pending anchor only if, when it is
\* placed (at the cursor, its start), the gap up to the anchor is at least 10
\* minutes and the task and its 5-minute buffer end by the anchor's fixedTime.
C6_GapRecheckedPerTask ==
  Generated =>
    \A i \in 1..Len(Sched) :
      (~Sched[i].isFixed /\ NextFixed(Sched, i) # 0) =>
        /\ Sched[NextFixed(Sched, i)].start - Sched[i].start >= 10
        /\ Sched[i].end + 5 <= Sched[NextFixed(Sched, i)].start

FlexibleNotBeforeStart ==
  \A i \in 1..Len(Sched) :
    ~Sched[i].isFixed => Sched[i].start >= startTime[1] * 60 + startTime[2]

\* C7: after generate and after an accepted reorder every flexible block
\* starts at or after the configured start time.
C7_FlexibleNotBeforeStart ==
  (Generated \/ Reordered) => FlexibleNotBeforeStart

FixedBlocksDisjoint(items) ==
  \A a, b \in 1..Len(items) :
    (a # b /\ items[a].isFixed /\ items[b].isFixed) =>
      LET sa == items[a].originalFixedTime[1] * 60 + items[a].originalFixedTime[2]
          sb == items[b].originalFixedTime[1] * 60 + items[b].originalFixedTime[2]
      IN  sa + items[a].duration <= sb \/ sb + items[b].duration <= sa

FixedAtOriginalTime(items) ==
  \A i \in 1..Len(items) :
    items[i].isFixed =>
      /\ items[i].start = items[i].originalFixedTime[1] * 60 + items[i].originalFixedTime[2]
      /\ items[i].end = items[i].start + items[i].duration

MinBuffer(items) ==
  \A i \in Pairs(items) : OneIsFlexible(items, i) => GapAfter(items, i) >= 5

\* C8 as stated: after an accepted reorder the schedule is sorted by start,
\* no two blocks overlap, the 5-minute buffer holds around flexible blocks
\* and every fixed block starts at its originalFixedTime.
C8_ReorderInvariants_Original ==
  Reordered =>
    /\ SortedByStart(Sched) /\ NoOverlap(Sched)
    /\ MinBuffer(Sched) /\ FixedAtOriginalTime(Sched)

\* C8 as amended: as stated, with no two blocks overlapping when the fixed
\* blocks themselves are pairwise non-overlapping.
C8_ReorderInvariants ==
  Reordered =>
    /\ SortedByStart(Sched) /\ MinBuffer(Sched) /\ FixedAtOriginalTime(Sched)
    /\ FixedBlocksDisjoint(Sched) => NoOverlap(Sched)

C8_Witness ==
  /\ Reordered /\ Len(Sched) = 3 /\ FixedBlocksDisjoint(Sched)
  /\ ~Sched[1].isFixed /\ Sched[2].isFixed /\ ~Sched[3].isFixed
  /\ Sched[1].task > Sched[3].task

\* the task a block stands for
AsTask(item) ==
  [name |-> item.task, duration |-> item.duration, category |-> item.category,
   fixedTime |-> item.originalFixedTime, notes |-> item.notes]

\* generate's merge-walk on the anchors and the flexible order of items
WalkOfGenerate(items, start) ==
  LET fixed == SelectSeq(items, ItemIsFixed)
      flex  == SelectSeq(items, ItemIsFlexible)
      fixedTasks    == SortBy([i \in 1..Len(fixed) |-> AsTask(fixed[i])],
                              [i \in 1..Len(fixed) |-> TimeStrKey(fixed[i].originalFixedTime)])
      flexibleTasks == [i \in 1..Len(flex) |-> AsTask(flex[i])]
      w0 == [flexIndex |-> 0, fixedIndex |-> 0,
             currentTime |-> ParseTime(start), items |-> <<>>]
  IN  SortByStart(GenWalk(fixedTasks, flexibleTasks, w0).items)

\* C10: the re-pack of an accepted reorder gives every block the start and
\* the end that generate's merge-walk gives it for the same anchors, the
\* same flexible order and the same start time.
C10_RepackIsGenerateWalk ==
  Reordered =>
    LET expected == WalkOfGenerate(Sched, startTime)
    IN  \A i \in 1..Len(Sched) :
          /\ Sched[i].task = expected[i].task
          /\ Sched[i].start = expected[i].start
          /\ Sched[i].end = expected[i].end

\* the drop on targetIndex is one the handler turns down: the dragged block
\* is fixed, or it is dropped onto its own index
RejectedDrop(targetIndex) ==
  /\ schedule # Null /\ draggedScheduleItem # Null
  /\ Val(draggedScheduleItem) < Len(Sched)
  /\ \/ Val(draggedScheduleItem) = targetIndex
     \/ Sched[Val(draggedScheduleItem) + 1].isFixed

\* C9: a rejected reorder (the dragged block is fixed, or the drop target is
\* its own index) leaves the schedule and the session state as they were.
C9_RejectedDropIsNoOp ==
  [][\A t \in 0..(MaxSessionTasks - 1) :
       (RejectedDrop(t) /\ HandleScheduleDrop(t)) =>
          UNCHANGED <<schedule, sessionVars>>]_vars

\* a drop of a fixed block was turned down while a countdown was running
\* and a block was completed
C9_Witness ==
  /\ lastOp = "dropOfFixed" /\ isRunning /\ currentTaskIndex # Null
  /\ \E i \in 1..Len(Sched) : Sched[i].completed

(***************************************************************************)
(* Properties of the session.                                              *)
(***************************************************************************)
\* the whole seconds left until the deadline e at the clock reading t
SecondsLeft(e, t) == IF e <= t THEN 0 ELSE (e - t + 999) \div 1000

\* C11: while running, every countdown update sets remainingSeconds to
\* max(0, ceil((plannedEndTimestamp - now) / 1000)); an update at or after
\* the deadline gives remainingSeconds = 0 and running = false, whatever
\* updates ran or were missed before it.
C11_UpdateFromDeadline ==
  [][(TimerFires /\ isRunning /\ endTimeRef # Null) =>
       /\ timeRemaining' = Some(SecondsLeft(Val(endTimeRef), now))
       /\ now >= Val(endTimeRef) => (timeRemaining' = Some(0) /\ ~isRunning')]_vars

\* the first update after a block of 1 minute was started at 0 comes 61
\* seconds later and ends the countdown
C11_Witness ==
  /\ lastOp = "timer" /\ now = 61000 /\ currentTaskIndex # Null
  /\ timeRemaining = Some(0) /\ ~isRunning /\ endTimeRef = Null

\* C12: whenever running is true a countdown callback is armed, after every
\* way of entering the running state.
C12_RunningImpliesArmed == isRunning => intervals > 0

\* C13: at most one countdown callback is armed in any reachable state.
C13_AtMostOneInterval == intervals <= 1

\* a callback armed by resume after the one armed by start was cancelled
C13_Witness ==
  /\ lastOp = "resume" /\ isRunning /\ intervals = 1 /\ timerRef # Null
  /\ timeRemaining = Some(60) /\ now = 500

\* the completed flags of the blocks other than the one at index i are
\* the same before and after the step
OtherFlagsKept(i) ==
  /\ schedule' # Null /\ Len(Val(schedule')) = Len(Sched)
  /\ \A k \in Indices(Sched) \ {i} :
       Val(schedule')[k + 1].completed = Sched[k + 1].completed

\* the current block is the last one of the schedule
AtLastBlock == ~NoCurrentBlock /\ Val(currentTaskIndex) >= Len(Sched) - 1

\* C14: complete() with a current index i that is not the last one marks
\* block i completed, keeps every other completed flag, and leaves the
\* session on block i+1: remainingSeconds = 60 * its duration,
\* plannedEndTimestamp = now + its duration, running = true.
C14_CompleteAdvances ==
  [][(CompleteTaskCall /\ ~NoCurrentBlock /\ ~AtLastBlock) =>
       LET i == Val(currentTaskIndex)
           d == Sched[i + 2].duration
       IN  /\ OtherFlagsKept(i)
           /\ Val(schedule')[i + 1].completed
           /\ currentTaskIndex' = Some(i + 1)
           /\ timeRemaining' = Some(60 * d)
           /\ endTimeRef' = Some(now + d * 60 * 1000)
           /\ isRunning']_vars

\* the first block was completed half a second after it was started and the
\* second one is now the current block
C14_Witness ==
  /\ lastOp = "complete" /\ now = 500 /\ Len(Sched) >= 2
  /\ Sched[1].completed /\ ~Sched[2].completed
  /\ currentTaskIndex = Some(1) /\ timeRemaining = Some(60)
  /\ endTimeRef = Some(60500) /\ isRunning

\* C15: complete() or skip() on the last block of the schedule leaves the
\* session idle: no current index, no remainingSeconds, not running, no
\* planned end timestamp and no armed callback.
C15_LastBlockLeavesIdle ==
  [][((CompleteTaskCall \/ SkipTaskCall) /\ AtLastBlock) =>
       /\ currentTaskIndex' = Null
       /\ timeRemaining' = Null
       /\ ~isRunning'
       /\ endTimeRef' = Null
       /\ timerRef' = Null /\ intervals' = 0]_vars

\* the last block was completed and the session is idle
C15_Witness ==
  /\ lastOp = "complete" /\ Sched[Len(Sched)].completed
  /\ currentTaskIndex = Null /\ timeRemaining = Null /\ ~isRunning
  /\ endTimeRef = Null /\ intervals = 0

\* C16: skip() changes no completed flag, and it leaves the current index,
\* remainingSeconds, the running flag and the planned end timestamp that
\* complete() would leave from the same state.
C16_SkipIsCompleteWithoutMark ==
  [][SkipTaskCall =>
       /\ schedule' = schedule
       /\ IF NoCurrentBlock
          THEN UNCHANGED <<currentTaskIndex, timeRemaining, isRunning, endTimeRef>>
          ELSE LET c == TimerEffect(isRunning, AdvanceOn(Session, Sched))
               IN  /\ currentTaskIndex' = c.currentTaskIndex
                   /\ timeRemaining' = c.timeRemaining
                   /\ isRunning' = c.isRunning
                   /\ endTimeRef' = c.endTimeRef]_vars

\* the first block was skipped while paused and the second one is running
C16_Witness ==
  /\ lastOp = "skip" /\ Len(Sched) >= 2 /\ ~Sched[1].completed
  /\ currentTaskIndex = Some(1) /\ isRunning /\ intervals = 1
  /\ endTimeRef = Some(now + 60000)

\* C17: start(index), from any session state, sets the current index to
\* index, remainingSeconds = 60 * the block's duration, plannedEndTimestamp
\* = now + the block's duration, running = true; every countdown update of
\* a running session computes remainingSeconds from the deadline in force.
C17_StartSetsSession ==
  [][/\ \A i \in 0..MaxSessionTasks :
          StartTaskCall(i) =>
            /\ currentTaskIndex' = Some(i)
            /\ timeRemaining' = Some(60 * Sched[i + 1].duration)
            /\ endTimeRef' = Some(now + Sched[i + 1].duration * 60 * 1000)
            /\ isRunning'
     /\ (TimerFires /\ isRunning) =>
          /\ endTimeRef # Null
          /\ timeRemaining' = Some(SecondsLeft(Val(endTimeRef), now))
    ]_vars

\* a block of 2 minutes was started while another block's countdown had
\* been running for a minute
C17_Witness ==
  /\ lastOp = "start" /\ now = 60500 /\ currentTaskIndex # Null
  /\ timeRemaining = Some(120) /\ endTimeRef = Some(180500)
  /\ isRunning /\ intervals = 1

\* C18: pause() while running freezes remainingSeconds at
\* max(0, ceil((plannedEndTimestamp - now) / 1000)), sets running = false,
\* clears the planned end timestamp and stops the callback.
C18_PauseFreezesAndClears ==
  [][(PauseTaskCall /\ isRunning /\ endTimeRef # Null) =>
       /\ timeRemaining' = Some(SecondsLeft(Val(endTimeRef), now))
       /\ ~isRunning'
       /\ endTimeRef' = Null
       /\ timerRef' = Null /\ intervals' = 0]_vars

\* C19: pause() while the session is not running is a no-op: the current
\* index, remainingSeconds, the running flag and the planned end timestamp
\* keep their values.
C19_PauseWhileStoppedIsNoOp ==
  [][(PauseTaskCall /\ ~isRunning) =>
       UNCHANGED <<currentTaskIndex, timeRemaining, isRunning, endTimeRef>>]_vars

\* C20: resume() with remainingSeconds > 0 sets plannedEndTimestamp =
\* now + remainingSeconds * 1000 and running = true and leaves a callback
\* armed, with remainingSeconds and the current index unchanged; resume()
\* with remainingSeconds 0 or absent changes nothing.
C20_ResumeRearms ==
  [][ResumeTaskCall =>
       IF timeRemaining # Null /\ Val(timeRemaining) > 0
       THEN /\ endTimeRef' = Some(now + Val(timeRemaining) * 1000)
            /\ isRunning'
            /\ timerRef' # Null /\ intervals' = 1
            /\ UNCHANGED <<timeRemaining, currentTaskIndex>>
       ELSE UNCHANGED <<schedule, sessionVars>>]_vars

\* the countdown update of this step finds the deadline reached
UpdateObservesZero ==
  endTimeRef # Null /\ SecondsLeft(Val(endTimeRef), now) = 0

\* the operations on the session other than the countdown update
SessionOps == {"start", "pause", "resume", "complete", "skip", "generate"}

\* C21: a countdown update that observes remainingSeconds = 0 plays the
\* alert once, sets running = false, clears the planned end timestamp and
\* stops the callback; an update that does not observe 0 plays no alert, and
\* neither does any other operation, so that no alert follows an expiry
\* before a new start or resume sets a deadline.
C21_AlertOncePerExpiry ==
  [][/\ (TimerFires /\ UpdateObservesZero) =>
          /\ alertsPlayed' = 1
          /\ timeRemaining' = Some(0)
          /\ ~isRunning'
          /\ endTimeRef' = Null
          /\ timerRef' = Null /\ intervals' = 0
     /\ (TimerFires /\ ~UpdateObservesZero) => alertsPlayed' = 0
     /\ lastOp' \in SessionOps => alertsPlayed' = 0
    ]_vars

\* a countdown update half a second after the deadline of a 1-minute block
\* played the alert and ended the countdown
C21_Witness ==
  /\ lastOp = "timer" /\ alertsPlayed = 1 /\ now = 60500
  /\ timeRemaining = Some(0) /\ ~isRunning /\ endTimeRef = Null
  /\ intervals = 0

\* C22: after generate, from any prior session state, there is no current
\* index and no remainingSeconds, running is false, no callback is armed and
\* every block of the new schedule has completed = false.
C22_GenerateResetsSession ==
  [][GenerateSchedule =>
       /\ currentTaskIndex' = Null
       /\ timeRemaining' = Null
       /\ ~isRunning'
       /\ timerRef' = Null /\ intervals' = 0
       /\ schedule' # Null
       /\ \A k \in 1..Len(Val(schedule')) : ~Val(schedule')[k].completed]_vars

\* a schedule was generated at 500 while the countdown started at 0 was
\* still on its way to its deadline
C22_Witness ==
  /\ lastOp = "generate" /\ now = 500 /\ endTimeRef = Some(60000)
  /\ currentTaskIndex = Null /\ timeRemaining = Null /\ ~isRunning
  /\ intervals = 0 /\ Len(Sched) > 0

RECURSIVE GenPasses(_, _, _, _)
GenPasses(fixedTasks, flexibleTasks, w, passes) ==
  IF passes = 0 \/ ~GenContinues(fixedTasks, flexibleTasks, w) THEN <<w>>
  ELSE <<w>> \o GenPasses(fixedTasks, flexibleTasks,
                          GenIteration(fixedTasks, flexibleTasks, w), passes - 1)

\* the same for the outer loop of the re-pack
RECURSIVE DropPasses(_, _, _, _)
DropPasses(fixedTasks, flexibleTasks, w, passes) ==
  IF passes = 0 \/ ~DropContinues(fixedTasks, flexibleTasks, w) THEN <<w>>
  ELSE <<w>> \o DropPasses(fixedTasks, flexibleTasks,
                           DropIteration(fixedTasks, flexibleTasks, w), passes - 1)

\* every pass of the run consumes one anchor or places all remaining
\* flexible tasks, and the run ends with all nFixed anchors and all nFlex
\* flexible tasks placed
WalkCompletes(run, nFixed, nFlex) ==
  /\ \A k \in 1..(Len(run) - 1) :
       \/ run[k + 1].fixedIndex = run[k].fixedIndex + 1
       \/ run[k + 1].fixedIndex = run[k].fixedIndex /\ run[k + 1].flexIndex = nFlex
  /\ run[Len(run)].fixedIndex = nFixed
  /\ run[Len(run)].flexIndex = nFlex
  /\ Len(run[Len(run)].items) = nFixed + nFlex

\* the passes of generate on the tasks and the start time
GenRun(tasks, start) ==
  LET fixed         == SelectSeq(tasks, HasFixedTime)
      flexible      == SelectSeq(tasks, IsFlexibleTask)
      fixedTasks    == SortBy(fixed, [i \in 1..Len(fixed) |-> FixedTimeKey(fixed[i])])
      flexibleTasks == SortBy(flexible, [i \in 1..Len(flexible) |-> CategoryKey(flexible[i])])
      w0 == [flexIndex |-> 0, fixedIndex |-> 0,
             currentTime |-> ParseTime(start), items |-> <<>>]
  IN  GenPasses(fixedTasks, flexibleTasks, w0, Len(fixed) + 1)

\* the passes of the re-pack on the reordered blocks and the start time
DropRun(newSchedule, start) ==
  LET fixed         == SelectSeq(newSchedule, ItemIsFixed)
      fixedTasks    == SortBy(fixed, [i \in 1..Len(fixed) |-> OriginalFixedMinutes(fixed[i])])
      flexibleTasks == SelectSeq(newSchedule, ItemIsFlexible)
      w0 == [flexIndex |-> 0, fixedIndex |-> 0,
             currentTime |-> ParseTime(start), items |-> <<>>]
  IN  DropPasses(fixedTasks, flexibleTasks, w0, Len(fixed) + 1)

\* C24: generate and the re-pack terminate: each pass of the merge-walk
\* loop consumes one anchor or places all remaining flexible tasks, so that
\* after at most (number of anchors + 1) passes every anchor and every
\* flexible task is placed.
C24_WalksTerminate ==
  /\ WalkCompletes(GenRun(todaysTasks, startTime),
                   Len(SelectSeq(todaysTasks, HasFixedTime)),
                   Len(SelectSeq(todaysTasks, IsFlexibleTask)))
  /\ schedule # Null =>
       \A d \in Indices(Sched), t \in Indices(Sched) :
         (d # t /\ ~Sched[d + 1].isFixed) =>
           WalkCompletes(DropRun(MoveItem(Sched, d, t), startTime),
                         Len(SelectSeq(Sched, ItemIsFixed)),
                         Len(SelectSeq(Sched, ItemIsFlexible)))

\* a reorder was re-packed into a schedule of two flexible blocks and an
\* anchor, generated before from three tasks
C24_Witness ==
  /\ lastOp = "dropAccepted" /\ Len(Sched) = 3 /\ Len(todaysTasks) = 3
  /\ Len(SelectSeq(Sched, ItemIsFixed)) = 1
  /\ Len(GenRun(todaysTasks, startTime)) = 3

(***************************************************************************)
(* Properties of the task lists and the store.                             *)
(***************************************************************************)
\* the positions a request can have in the list of requests
RequestSlots == 1..(MaxRequests + 1)

\* C25: the failure of a task-store operation (load, insert, update of the
\* due date, delete) leaves the list of all tasks, today's tasks, the
\* schedule and the session state as they were; the task lists change only
\* when a handler resumes with the store's confirmation of success.
C25_FailureChangesNothing ==
  [][/\ \A k \in RequestSlots :
          RequestFails(k) =>
            UNCHANGED <<allTasks, todaysTasks, schedule, sessionVars>>
     /\ (allTasks' # allTasks \/ todaysTasks' # todaysTasks) =>
          \E k \in RequestSlots :
            /\ k <= Len(requests)
            /\ requests[k].state = "ok" /\ requests'[k].state = "done"
    ]_vars

\* a delete failed while a countdown was running on a generated schedule
C25_Witness ==
  /\ lastOp = "failed" /\ schedule # Null /\ isRunning
  /\ Len(allTasks) > 0 /\ Len(allTasks) = Len(store.rows)
  /\ \E k \in 1..Len(requests) :
       requests[k].op = "delete" /\ requests[k].state = "failed"

\* every request has been carried out and its handler has returned
AllSettledOk == \A k \in 1..Len(requests) : requests[k].state = "done"

\* the tasks the store holds for the selected workspace, as the handlers
\* see them
StoredTasks ==
  { DbToLocal(store.rows[k]) :
      k \in { j \in 1..Len(store.rows) : store.rows[j].workspace = Val(workspace) } }

\* the tasks of a list
TasksIn(tasks) == { tasks[k] : k \in 1..Len(tasks) }

\* C30: once all requests in flight have completed successfully, the list
\* of all tasks contains exactly the tasks held by the store, for every
\* interleaving of requests and completions.
C30_ListMatchesStore ==
  (AllSettledOk /\ Len(requests) > 0 /\ workspace # Null) =>
     TasksIn(allTasks) = StoredTasks

(***************************************************************************)
(* Properties of the placement of the flexible tasks.                      *)
(***************************************************************************)
\* the anchors and the flexible tasks in the order generate walks them
SortedFixed(tasks) ==
  LET fixed == SelectSeq(tasks, HasFixedTime)
  IN  SortBy(fixed, [i \in 1..Len(fixed) |-> FixedTimeKey(fixed[i])])

SortedFlexible(tasks) ==
  LET flexible == SelectSeq(tasks, IsFlexibleTask)
  IN  SortBy(flexible, [i \in 1..Len(flexible) |-> CategoryKey(flexible[i])])

\* the positions in the schedule of the blocks of the task
BlocksOf(items, task) == { i \in 1..Len(items) : items[i].task = task.name }

\* the task has exactly one block, as long as the task
PlacedInFull(items, task) ==
  /\ Cardinality(BlocksOf(items, task)) = 1
  /\ \A i \in BlocksOf(items, task) :
       items[i].end - items[i].start = task.duration

\* C26: a flexible task that does not fit before the pending anchor is
\* deferred, not dropped or truncated: a flexible task placed in the pass of
\* the last anchor ends at least 5 minutes before the anchor, and the first
\* flexible task left over by that pass starts exactly 5 minutes after the
\* anchor's end; every flexible task lasts its full duration.
C26_DeferredAfterLastAnchor ==
  (Generated /\ Len(SortedFixed(todaysTasks)) > 0) =>
    LET fixedTasks    == SortedFixed(todaysTasks)
        flexibleTasks == SortedFlexible(todaysTasks)
        run           == GenRun(todaysTasks, startTime)
        anchor        == fixedTasks[Len(fixedTasks)]
        anchorStart   == ParseTime(anchor.fixedTime)
        before        == run[Len(fixedTasks)].flexIndex
        deferred      == run[Len(fixedTasks) + 1].flexIndex
    IN  /\ \A k \in 1..Len(flexibleTasks) : PlacedInFull(Sched, flexibleTasks[k])
        /\ \A k \in (before + 1)..deferred :
             \A i \in BlocksOf(Sched, flexibleTasks[k]) :
               Sched[i].end + 5 <= anchorStart
        /\ deferred < Len(flexibleTasks) =>
             \A i \in BlocksOf(Sched, flexibleTasks[deferred + 1]) :
               Sched[i].start = anchorStart + anchor.duration + 5

\* from 09:00 a flexible task of 17 minutes does not fit before the anchor
\* at 09:10 for 3 minutes: the anchor is 09:10-09:13, the task 09:18-09:35
C26_Witness ==
  /\ Generated /\ startTime = <<9, 0>> /\ Len(Sched) = 2
  /\ Sched[1].isFixed /\ Sched[1].start = 550 /\ Sched[1].end = 553
  /\ ~Sched[2].isFixed /\ Sched[2].start = 558 /\ Sched[2].end = 575

\* C27: with no anchors the flexible tasks are placed back-to-back from
\* the start time, in sorted order: the k-th one (from 0) starts at the
\* start time plus the durations of the tasks before it plus 5 minutes for
\* each of them, and ends its duration later.
C27_BackToBackWithoutAnchors ==
  (Generated /\ Len(SortedFixed(todaysTasks)) = 0) =>
    LET flexibleTasks == SortedFlexible(todaysTasks)
    IN  /\ Len(Sched) = Len(flexibleTasks)
        /\ \A k \in 0..(Len(flexibleTasks) - 1) :
             /\ Sched[k + 1].task = flexibleTasks[k + 1].name
             /\ Sched[k + 1].start =
                  ParseTime(startTime) + SumDurations(SubSeq(flexibleTasks, 1, k)) + 5 * k
             /\ Sched[k + 1].end = Sched[k + 1].start + flexibleTasks[k + 1].duration

\* durations 17, 3, 17 from 09:22 give 09:22-09:39, 09:44-09:47 and
\* 09:52-10:09
C27_Witness ==
  /\ Generated /\ startTime = <<9, 22>> /\ Len(Sched) = 3
  /\ Sched[1].start = 562 /\ Sched[1].end = 579
  /\ Sched[2].start = 584 /\ Sched[2].end = 587
  /\ Sched[3].start = 592 /\ Sched[3].end = 609
  /\ \A i \in 1..3 : ~Sched[i].isFixed

\* the names of the tasks of the blocks, in the order of the blocks
TaskNames(items) == [i \in 1..Len(items) |-> items[i].task]

\* the flexible blocks are in ascending category order, those of one
\* category in the order of the task list (a task's name is its position in
\* the list), each starting before the next; the fixed blocks are in
\* ascending order of their fixed time
InWalkOrder(items) ==
  LET flexible == SelectSeq(items, ItemIsFlexible)
      fixed    == SelectSeq(items, ItemIsFixed)
  IN  /\ \A i \in Pairs(flexible) :
           /\ \/ CategoryRank[flexible[i].category] < CategoryRank[flexible[i + 1].category]
              \/ /\ flexible[i].category = flexible[i + 1].category
                 /\ flexible[i].task < flexible[i + 1].task
           /\ flexible[i].start < flexible[i + 1].start
      /\ \A i \in Pairs(fixed) :
           ParseTime(fixed[i].originalFixedTime) <= ParseTime(fixed[i + 1].originalFixedTime)

\* C28: in every generated schedule the flexible blocks appear in ascending
\* category order with ties in input order, none placed earlier than one
\* that precedes it in that order, and the anchors in ascending fixed-time
\* order; after an accepted reorder the flexible blocks appear in their new
\* relative order.
C28_BlocksInWalkOrder ==
  [][/\ Generated' => InWalkOrder(Val(schedule'))
     /\ \A t \in 0..(MaxTasks - 1) :
          (lastOp' = "dropAccepted" /\ DropAccepted(t) /\ HandleScheduleDrop(t)) =>
            TaskNames(SelectSeq(Val(schedule'), ItemIsFlexible)) =
              TaskNames(SelectSeq(MoveItem(Sched, Val(draggedScheduleItem), t),
                                  ItemIsFlexible))
    ]_vars

\* after an accepted reorder around an anchor the flexible blocks are no
\* longer in the order of the task list
C28_Witness ==
  /\ Reordered /\ Len(SelectSeq(Sched, ItemIsFixed)) = 1
  /\ LET flexible == SelectSeq(Sched, ItemIsFlexible)
     IN  Len(flexible) = 2 /\ flexible[1].task > flexible[2].task
                           /\ flexible[1].category = flexible[2].category

\* C29: an accepted reorder performed while a block is current leaves
\* currentTaskIndex designating the same task: the block at that position
\* after the re-pack is the block that was there before it.
C29_ReorderKeepsCurrentTask ==
  [][\A t \in 0..(MaxSessionTasks - 1) :
       (HandleScheduleDrop(t) /\ DropAccepted(t) /\ currentTaskIndex # Null) =>
         /\ currentTaskIndex' = currentTaskIndex
         /\ Val(schedule')[Val(currentTaskIndex) + 1].task =
              Sched[Val(currentTaskIndex) + 1].task
    ]_vars

(***************************************************************************)
(* Properties of today's tasks.                                            *)
(***************************************************************************)
\* C31: after any sequence of successful load, add, delete (from the today,
\* upcoming or past view) and reschedule operations, today's tasks are
\* exactly the tasks of the list of all tasks that are due today, as sets.
C31_TodayIsDueToday ==
  (AllSettledOk /\ Len(requests) > 0 /\ workspace # Null) =>
     TasksIn(todaysTasks) = { task \in TasksIn(allTasks) : DueToday(task) }

(***************************************************************************)
(* Properties of schedules with non-overlapping anchors.                   *)
(***************************************************************************)
\* of the anchors sorted by fixed time, each ends no later than the next
\* one's fixed time
AnchorsInSequence(tasks) ==
  LET fixedTasks == SortedFixed(tasks)
  IN  \A i \in Pairs(fixedTasks) :
        ParseTime(fixedTasks[i].fixedTime) + fixedTasks[i].duration
          <= ParseTime(fixedTasks[i + 1].fixedTime)

\* no two blocks overlap, adjacent or not
PairwiseDisjoint(items) ==
  \A a, b \in 1..Len(items) :
    a < b => (items[a].end <= items[b].start \/ items[b].end <= items[a].start)

\* C32: when the anchors are pairwise non-overlapping, every schedule
\* produced by generate or by an accepted reorder has no two overlapping
\* blocks, for every start time and every set of flexible tasks.
C32_DisjointAnchorsNoOverlap ==
  ((Generated \/ Reordered) /\ AnchorsInSequence(todaysTasks)) =>
     PairwiseDisjoint(Sched)

\* a reorder with the start time 09:22 behind the first of two anchors
C32_Witness ==
  /\ Reordered /\ AnchorsInSequence(todaysTasks)
  /\ Len(SortedFixed(todaysTasks)) = 2 /\ Len(Sched) = 3
  /\ startTime = <<9, 22>>

(***************************************************************************)
(* Properties of what a reorder leaves alone.                              *)
(***************************************************************************)
\* the fields of a block other than its start and its end
Content(item) ==
  [task |-> item.task, category |-> item.category, duration |-> item.duration,
   notes |-> item.notes, isFixed |-> item.isFixed,
   originalFixedTime |-> item.originalFixedTime, completed |-> item.completed]

\* how many blocks of items have the content c
Copies(items, c) == Cardinality({ i \in 1..Len(items) : Content(items[i]) = c })

\* the two schedules hold the same blocks, each as often, up to order, start and end
SameBlocks(before, after) ==
  /\ Len(before) = Len(after)
  /\ \A i \in 1..Len(before) :
       Copies(after, Content(before[i])) = Copies(before, Content(before[i]))

\* C33: an accepted reorder changes only the order of the blocks and their
\* start and end: the multiset of blocks with their task, category,
\* duration, notes, isFixed, originalFixedTime and completed fields is
\* preserved, and currentTaskIndex, timeRemaining, isRunning and the planned
\* end timestamp are left unchanged.
C33_ReorderFrame ==
  [][lastOp' = "dropAccepted" =>
       /\ SameBlocks(Sched, Val(schedule'))
       /\ UNCHANGED <<currentTaskIndex, timeRemaining, isRunning, endTimeRef>>
    ]_vars

\* a reorder during a running session that moved a completed block
C33_Witness ==
  /\ Reordered /\ currentTaskIndex # Null /\ isRunning
  /\ Len(Sched) = 2 /\ Sched[1].task > Sched[2].task
  /\ \E i \in 1..2 : Sched[i].completed

(***************************************************************************)
(* Properties of the completed flags.                                      *)
(***************************************************************************)
\* the tasks of the completed blocks
CompletedTasks(items) == { items[i].task : i \in { j \in 1..Len(items) : items[j].completed } }

\* C34: a block's completed flag becomes true only through completeTask
\* invoked while that block is the current one, and once true it stays true
\* through every later start, pause, resume, complete, skip, timer expiry
\* and accepted or rejected reorder; only generate replaces it with false.
C34_CompletedIsMonotone ==
  [][/\ (schedule # Null /\ ~(lastOp' = "generate" /\ GenerateSchedule)) =>
          /\ schedule' # Null
          /\ CompletedTasks(Sched) \subseteq CompletedTasks(Val(schedule'))
          /\ \A task \in CompletedTasks(Val(schedule')) \ CompletedTasks(Sched) :
               /\ lastOp' = "complete" /\ CompleteTask
               /\ Sched[Val(currentTaskIndex) + 1].task = task
     /\ (lastOp' = "generate" /\ GenerateSchedule) => CompletedTasks(Val(schedule')) = {}
    ]_vars

\* the countdown of the second task reached zero after the first one was
\* completed and moved behind it
C34_Witness ==
  /\ lastOp = "timer" /\ timeRemaining = Some(0)
  /\ Len(Sched) = 2 /\ Sched[1].task > Sched[2].task
  /\ Sched[2].completed /\ ~Sched[1].completed

(***************************************************************************)
(* Properties of the workspace.                                            *)
(***************************************************************************)
\* the ids of the rows the store holds for the workspace ws
IdsOf(ws) == { store.rows[k].id : k \in { j \in 1..Len(store.rows) : store.rows[j].workspace = ws } }

\* the tasks of the list are tasks of the selected workspace, and there is
\* none while no workspace is selected
OfSelectedWorkspace(tasks) ==
  IF workspace = Null THEN tasks = <<>>
  ELSE \A k \in 1..Len(tasks) : tasks[k].id \in IdsOf(Val(workspace))

\* C35: in every interleaving of login, logout and completions of the loads
\* of tasks, the list of all tasks and today's tasks never hold a task of a
\* workspace other than the selected one, and they are empty while no
\* workspace is selected.
C35_ListsOfSelectedWorkspace ==
  OfSelectedWorkspace(allTasks) /\ OfSelectedWorkspace(todaysTasks)

\* the tasks of "personal" are loaded after a session in "work" that had
\* loaded a task
C35_Witness ==
  /\ workspace = Some("personal") /\ Len(allTasks) > 0 /\ lastOp = "delivered"
  /\ Len(requests) = 2 /\ requests[1].workspace = Some("work")
  /\ IdsOf("work") # {}

(***************************************************************************)
(* Properties of the position a drop gives the dragged block.              *)
(***************************************************************************)
\* the position of the block of the task in items
PositionOf(items, task) == CHOOSE p \in 1..Len(items) : items[p].task = task

\* the drop of block i on block j is one the handler accepts
AcceptedDrops ==
  IF schedule = Null \/ draggedScheduleItem = Null THEN {}
  ELSE { j \in Indices(Sched) : DropAccepted(j) }

\* C36: an accepted reorder of the block at index i onto the target index j
\* (any of the targets the handler accepts for the dragged block) puts the dragged block immediately before the block that was at index j
\* in the sequence that is then split and re-packed, for j < i and for
\* j > i alike, the other blocks keeping their order; so a drop on the
\* immediate successor leaves that sequence as it was, and no drop makes
\* the dragged block the last one.
C36_DroppedBeforeTarget ==
  [][lastOp' = "dropAccepted" =>
     \A j \in AcceptedDrops :
       LET i == Val(draggedScheduleItem)
           newSchedule == MoveItem(Sched, i, j)
           p == PositionOf(newSchedule, Sched[i + 1].task)
       IN  /\ Len(newSchedule) = Len(Sched)
           /\ newSchedule[p] = Sched[i + 1]
           /\ p < Len(newSchedule)
           /\ newSchedule[p + 1] = Sched[j + 1]
           /\ RemoveAt(newSchedule, p - 1) = RemoveAt(Sched, i)
           /\ (j = i + 1) => newSchedule = Sched
    ]_vars

\* three flexible blocks after the first one was dropped on the last one, or
\* the second one on the first
C36_Witness ==
  /\ Reordered /\ Len(Sched) = 3 /\ TaskNames(Sched) = <<2, 1, 3>>
  /\ \A k \in 1..3 : ~Sched[k].isFixed

====
